---- MODULE Spec2Model ----
(***************************************************************************)
(* microbi.js: api server and static http server for Node.js.              *)
(*                                                                         *)
(* Strings of the program (paths, bodies, file names) are sequences of     *)
(* one-character strings, so that splitting, concatenation and the two     *)
(* path regular expressions are computed character by character.           *)
(* Content types and event names are plain TLA+ strings.                   *)
(***************************************************************************)
EXTENDS Integers, Sequences, FiniteSets, TLC

VARIABLES api, apiContentType, staticServer, req, headersSentThrows,
          vpPath, vpCalled, vpResult, argv, listening

vars == <<api, apiContentType, staticServer, req, headersSentThrows,
          vpPath, vpCalled, vpResult, argv, listening>>

(***************************************************************************)
(* Bounds                                                                  *)
(***************************************************************************)
\* number of connections the listener accepts
MaxReqs == 1
\* number of 'data' events one request body is delivered in
MaxChunks == 2
\* length of the paths validatePath is applied to in SpecValidate
MaxLen == 3
\* number of connections with a body in flight at once in SpecConcurrent
MaxConns == 2

Reqs == 1..MaxReqs

(***************************************************************************)
(* Character classes of the two regular expressions                        *)
(***************************************************************************)
Digits == {"0","1","2","3","4","5","6","7","8","9"}

Letters ==
  {"a","b","c","d","e","f","g","h","i","j","k","l","m",
   "n","o","p","q","r","s","t","u","v","w","x","y","z",
   "A","B","C","D","E","F","G","H","I","J","K","L","M",
   "N","O","P","Q","R","S","T","U","V","W","X","Y","Z"}

\* \w of a JavaScript regular expression without the u/i flags
WordChars == Letters \cup Digits \cup {"_"}

\* the class [\./_\-\d\w] of VALID_PATH_REGEX
ValidPathChars == {".", "/", "_", "-"} \cup Digits \cup WordChars

\* /^[\./_\-\d\w]*$/.test( p )
VALID_PATH_REGEX(p) == \A i \in 1..Len(p) : p[i] \in ValidPathChars

\* /(\.\.)|(\/\.)/.test( p ): an unanchored search for ".." or "/."
DISALLOWED_PATH_REGEX(p) ==
  \E i \in 1..(Len(p) - 1) :
     \/ (p[i] = "." /\ p[i+1] = ".")
     \/ (p[i] = "/" /\ p[i+1] = ".")

\* a validator that forgets the "/." alternative of the disallowed pattern
validatePathNoHidden(p) ==
  IF \E i \in 1..(Len(p) - 1) : p[i] = "." /\ p[i+1] = "."
  THEN FALSE
  ELSE VALID_PATH_REGEX(p)

validatePath(p) ==
  IF DISALLOWED_PATH_REGEX(p) THEN FALSE ELSE VALID_PATH_REGEX(p)

(***************************************************************************)
(* Literals                                                                *)
(***************************************************************************)
Str404 == <<"4","0","4"," ","N","o","t"," ","f","o","u","n","d",".">>

Str405 ==
  <<"4","0","5"," ","M","e","t","h","o","d"," ","n","o","t"," ",
    "a","l","l","o","w","e","d",".">>

GET == <<"G","E","T">>

POST == <<"P","O","S","T">>

IndexHtml == <<"i","n","d","e","x",".","h","t","m","l">>

(***************************************************************************)
(* url.parse( request.url, true ): pathname is the text before the first   *)
(* "?", query is what follows it.                                          *)
(***************************************************************************)
RECURSIVE QMark(_, _)
QMark(u, i) ==
  IF i > Len(u) THEN 0
  ELSE IF u[i] = "?" THEN i
  ELSE QMark(u, i + 1)

urlParse(u) ==
  LET q == QMark(u, 1) IN
  IF q = 0
  THEN [pathname |-> u, query |-> <<>>]
  ELSE [pathname |-> SubSeq(u, 1, q - 1), query |-> SubSeq(u, q + 1, Len(u))]

(***************************************************************************)
(* mimemap: extension -> content type; an unknown key reads as undefined   *)
(***************************************************************************)
mime(ext) ==
  CASE ext = <<"t","x","t">> -> "text/plain"
    [] ext = <<"h","t","m","l">> -> "text/html"
    [] ext = <<"j","s","o","n">> -> "application/json"
    [] OTHER -> "undefined"

(***************************************************************************)
(* path.extname( f ).replace( '.', '' )                                    *)
(***************************************************************************)
RECURSIVE LastIndexOf(_, _, _)
LastIndexOf(s, c, i) ==
  IF i = 0 THEN 0
  ELSE IF s[i] = c THEN i
  ELSE LastIndexOf(s, c, i - 1)

\* the text from the last "." of the last path component on; empty when the
\* component has no "." or only a leading one
extname(f) ==
  LET slash == LastIndexOf(f, "/", Len(f))
      base == SubSeq(f, slash + 1, Len(f))
      dot == LastIndexOf(base, ".", Len(base))
  IN IF dot <= 1 THEN <<>> ELSE SubSeq(base, dot, Len(base))

\* String.prototype.replace with a string pattern: first occurrence only
RECURSIVE IndexOf(_, _, _)
IndexOf(s, c, i) ==
  IF i > Len(s) THEN 0
  ELSE IF s[i] = c THEN i
  ELSE IndexOf(s, c, i + 1)

replaceDot(s) ==
  LET d == IndexOf(s, ".", 1) IN
  IF d = 0 THEN s ELSE SubSeq(s, 1, d - 1) \o SubSeq(s, d + 1, Len(s))

\* a file-name mapping that serves the directory entry for "/" unchanged
fileToServeNoIndex(pathname) == <<".">> \o pathname

fileToServe(pathname) ==
  IF pathname = <<"/">> THEN IndexHtml ELSE <<".">> \o pathname

(***************************************************************************)
(* The api object: a tree of properties keyed by path part, the request    *)
(* method being the last property name, ending in a function.  A function  *)
(* with the property "stream" is called with the two streams.              *)
(***************************************************************************)
Null == [kind |-> "null", kids |-> <<>>, stream |-> FALSE, name |-> ""]

ApiNode(kids) == [kind |-> "node", kids |-> kids, stream |-> FALSE, name |-> ""]

ApiFn(name, stream) ==
  [kind |-> "fn", kids |-> <<>>, stream |-> stream, name |-> name]

\* api.e.POST echoes the body, api.a.b.GET answers the query string,
\* api.s.GET and api.s.POST take the raw streams
ApiOb ==
  ApiNode(
    (<<"e">> :> ApiNode(POST :> ApiFn("echo", FALSE)))
    @@ (<<"a">> :> ApiNode(<<"b">> :> ApiNode(GET :> ApiFn("query", FALSE))))
    @@ (<<"s">> :> ApiNode((GET :> ApiFn("raw", TRUE))
                           @@ (POST :> ApiFn("raw", TRUE)))))

\* the objects passed to setApi
ApiObs == {Null, ApiOb}

\* what a buffered api function returns for ( reqUrl, requestBody )
apiFunctionCall(fn, reqUrl, requestBody) ==
  CASE fn.name = "echo" -> requestBody
    [] fn.name = "query" -> reqUrl.query
    [] OTHER -> <<>>

(***************************************************************************)
(* lib/router.js                                                           *)
(***************************************************************************)
RECURSIVE Split(_)
Split(s) ==
  LET i == IndexOf(s, "/", 1) IN
  IF i = 0 THEN <<s>>
  ELSE <<SubSeq(s, 1, i - 1)>> \o Split(SubSeq(s, i + 1, Len(s)))

\* the path parts without the empty ones at the two ends, then the method
getRoutes(pathname, method) ==
  LET all == Split(pathname)
      noHead == IF Len(all) > 0 /\ Head(all) = <<>> THEN Tail(all) ELSE all
      noLast == IF Len(noHead) > 0 /\ noHead[Len(noHead)] = <<>>
                THEN SubSeq(noHead, 1, Len(noHead) - 1) ELSE noHead
  IN Append(noLast, method)

\* walk the tree by exact key; Null when a key is missing or the walk does
\* not end on a function
RECURSIVE route(_, _)
route(routeParts, node) ==
  IF routeParts = <<>>
  THEN (IF node.kind = "fn" THEN node ELSE Null)
  ELSE IF node.kind = "node" /\ Head(routeParts) \in DOMAIN node.kids
       THEN route(Tail(routeParts), node.kids[Head(routeParts)])
       ELSE Null

(***************************************************************************)
(* The working directory of the server: file name -> the chunks its read   *)
(* stream delivers.  Any other name fails to open.                         *)
(***************************************************************************)
Files ==
  (IndexHtml :> << <<"h">>, <<"i">> >>)
  @@ (<<".","/","x",".","t","x","t">> :> << <<"x">> >>)

(***************************************************************************)
(* Requests                                                                *)
(***************************************************************************)
Methods == {GET, POST}

Urls ==
  { <<"/">>,
    <<"/","a">>,
    <<"/","a","/","b","?","q">>,
    <<"/","e">>,
    <<"/","s">>,
    <<"/","x",".","t","x","t">>,
    <<"/",".",".">>,
    <<"/","%">> }

\* the chunks a request body arrives in
Chunks == { <<"h","e">>, <<"y">> }

\* the extensions passed to setApiContentType
Exts == { <<"t","x","t">>, <<"j","s","o","n">> }

(***************************************************************************)
(* What happened on one request, in order: the steps onRequest and its     *)
(* callbacks executed and the calls they made on the response.             *)
(***************************************************************************)
Ev(ev, status, ctype, data, threw) ==
  [ev |-> ev, status |-> status, ctype |-> ctype, data |-> data,
   threw |-> threw, fn |-> ""]

\* the api function fn is called; data is the body it is given
Invoke(fn, data) ==
  [ev |-> "invoke", status |-> 0, ctype |-> "", data |-> data,
   threw |-> FALSE, fn |-> fn.name]

Did(ev) == Ev(ev, 0, "", <<>>, FALSE)

\* the response has its header: writeHead, write or end was accepted
HeaderSet(trace) ==
  \E i \in 1..Len(trace) :
     /\ trace[i].ev \in {"writeHead", "write", "end", "pipeEnd", "handlerEnd"}
     /\ ~trace[i].threw

\* a statement of the running callback: skipped once a call has thrown
Step(st, e) ==
  IF st.alive THEN [st EXCEPT !.trace = Append(@, e)] ELSE st

\* response.writeHead: on a runtime that refuses a second header the call
\* throws and the rest of the callback is not executed.  What the process
\* does with the exception is left to the embedding program and not followed.
writeHead(st, status, ctype) ==
  IF ~st.alive THEN st
  ELSE IF headersSentThrows /\ HeaderSet(st.trace)
       THEN [trace |-> Append(st.trace, Ev("writeHead", status, ctype, <<>>, TRUE)),
             alive |-> FALSE]
       ELSE Step(st, Ev("writeHead", status, ctype, <<>>, FALSE))

end(st, data) == Step(st, Ev("end", 0, "", data, FALSE))

respond404(st) == end(writeHead(st, 404, ""), Str404)

\* a 405 responder that reports the request as not found
respond405AsNotFound(st) == end(writeHead(st, 404, ""), Str404)

respond405(st) == end(writeHead(st, 405, ""), Str405)

(***************************************************************************)
(* onRequest                                                               *)
(***************************************************************************)
InitReq ==
  [pc |-> "idle", method |-> <<>>, url |-> <<>>,
   apiFunction |-> Null, acc |-> "none", requestBody |-> <<>>,
   received |-> <<>>,
   fstate |-> "none", piped |-> FALSE, file |-> <<>>, frest |-> <<>>,
   hpending |-> FALSE, trace |-> <<>>]

\* a lookup that falls back on a built-in api object when none was set
resolveDefaultApi(pathname, method) ==
  route(getRoutes(pathname, method), IF api # Null THEN api ELSE ApiOb)

\* a lookup that leaves the request method out of the route
resolveAnyMethod(pathname, method) ==
  IF api # Null THEN route(getRoutes(pathname, GET), api) ELSE Null

\* the api function for the request, Null when there is no api object or no
\* function at the route
resolve(pathname, method) ==
  IF api # Null THEN route(getRoutes(pathname, method), api) ELSE Null

\* the static file server, from the staticServer test to the end of onRequest
staticFallback(base, st, method, pathname) ==
  LET s3 == Step(st, Did("staticCheck"))
      s4 == IF ~staticServer THEN respond404(s3) ELSE s3
      s5 == Step(s4, Did("methodCheck"))
  IN IF ~s5.alive THEN [base EXCEPT !.trace = s5.trace]
     ELSE IF method # GET THEN [base EXCEPT !.trace = respond405(s5).trace]
     ELSE LET f == fileToServe(pathname)
              s6 == Step(s5, Ev("createReadStream", 0, "", f, FALSE))
              ext == replaceDot(extname(f))
              s7 == writeHead(s6, 200, mime(ext))
              s8 == Step(s7, Did("pipe"))
          IN [base EXCEPT !.fstate = "open", !.file = f,
                          !.frest = IF f \in DOMAIN Files THEN Files[f] ELSE <<>>,
                          !.piped = s8.alive, !.trace = s8.trace]

\* the request passed validation: api section, then the static file server
routed(base, st, method, pathname, hsync) ==
  LET apiFunction == resolve(pathname, method)
      s1 == IF api # Null THEN Step(st, Did("route")) ELSE st
  IN IF apiFunction # Null /\ apiFunction.stream
     THEN LET s2 == Step(s1, Invoke(apiFunction, <<>>))
              s2h == IF hsync THEN Step(s2, Did("handlerEnd")) ELSE s2
          IN staticFallback([base EXCEPT !.apiFunction = apiFunction,
                                         !.hpending = ~hsync],
                            s2h, method, pathname)
     ELSE IF apiFunction # Null
     THEN [base EXCEPT !.apiFunction = apiFunction, !.acc = "open",
                       !.trace = Step(s1, Did("listen")).trace]
     ELSE staticFallback(base, s1, method, pathname)

\* a request handler that looks the route up without validating the path
onRequestUnvalidated(method, url, hsync) ==
  routed([InitReq EXCEPT !.pc = "dispatched", !.method = method, !.url = url],
         [trace |-> <<>>, alive |-> TRUE], method, urlParse(url).pathname, hsync)

\* the record of a request after onRequest has returned; hsync tells whether
\* a stream api function answers before it returns
onRequest(method, url, hsync) ==
  LET reqUrl == urlParse(url)
      pathname == reqUrl.pathname
      base == [InitReq EXCEPT !.pc = "dispatched", !.method = method, !.url = url]
      s0 == [trace |-> <<Did("validatePath")>>, alive |-> TRUE]
  IN IF ~validatePath(pathname)
     THEN [base EXCEPT !.trace = respond404(s0).trace]
     ELSE routed(base, s0, method, pathname, hsync)

\* a 'data' listener that keeps only the last chunk
onDataOverwrite(requestBody, data) == data

\* a 'data' listener that puts the new chunk in front of the buffer
onDataPrepend(requestBody, data) == data \o requestBody

\* the 'data' listener of a buffered request
onData(requestBody, data) == requestBody \o data

\* an 'end' listener that looks the api function up again when the body ends
onEndResolveLate(r) ==
  LET fn == resolve(urlParse(r.url).pathname, r.method)
      s0 == [trace |-> r.trace, alive |-> TRUE]
      s1 == writeHead(s0, 200, apiContentType)
      s2 == Step(s1, Invoke(fn, r.requestBody))
      s3 == end(s2, apiFunctionCall(fn, urlParse(r.url), r.requestBody))
  IN [r EXCEPT !.acc = "ended", !.trace = s3.trace]

\* the 'end' listener of a buffered request
onEnd(r) ==
  LET s0 == [trace |-> r.trace, alive |-> TRUE]
      s1 == writeHead(s0, 200, apiContentType)
      s2 == Step(s1, Invoke(r.apiFunction, r.requestBody))
      s3 == end(s2, apiFunctionCall(r.apiFunction, urlParse(r.url), r.requestBody))
  IN [r EXCEPT !.acc = "ended", !.trace = s3.trace]

(***************************************************************************)
(* server and httpsServer.  Ports and addresses are JavaScript values:     *)
(* undefined, a number, or a string (process.argv holds strings).          *)
(***************************************************************************)
Undefined == [t |-> "undefined", n |-> 0, s |-> ""]

Num(n) == [t |-> "number", n |-> n, s |-> ""]

Str(s) == [t |-> "string", n |-> 0, s |-> s]

\* ToBoolean: undefined, 0 and '' are false
Truthy(v) ==
  CASE v.t = "undefined" -> FALSE
    [] v.t = "number" -> v.n # 0
    [] v.t = "string" -> v.s # ""

\* a || b
Or(a, b) == IF Truthy(a) THEN a ELSE b

\* process.argv[ i ], counted from 0
processArgv(i) == argv[i + 1]

DefaultPort == 8080

DefaultIp == "127.0.0.1"

\* port = port || process.argv[ 2 ] || 8080, ip likewise
listenArgs(port, ip) ==
  [port |-> Or(Or(port, processArgv(2)), Num(DefaultPort)),
   ip |-> Or(Or(ip, processArgv(3)), Str(DefaultIp))]

NotListening ==
  [fn |-> "none", port |-> Undefined, ip |-> Undefined,
   argPort |-> Undefined, argIp |-> Undefined]

\* the values server and httpsServer are called with
PortArgs == {Undefined, Num(0), Num(80), Num(3000)}

IpArgs == {Undefined, Str(""), Str("0.0.0.0")}

\* process.argv: node, the script, then the positional arguments
Argvs ==
  { <<Str("node"), Str("microbi.js"), a2, a3>> :
      a2 \in {Undefined, Str("9000"), Str("0")},
      a3 \in {Undefined, Str("10.0.0.1")} }

(***************************************************************************)
(* Actions                                                                 *)
(***************************************************************************)
cfgvars == <<api, apiContentType, staticServer>>

vpvars == <<vpPath, vpCalled, vpResult>>

srvvars == <<argv, listening>>

Init ==
  /\ api = Null
  /\ apiContentType = mime(<<"t","x","t">>)
  /\ staticServer = TRUE
  /\ req = [r \in Reqs |-> InitReq]
  /\ headersSentThrows \in BOOLEAN
  /\ vpPath = <<>>
  /\ vpCalled = FALSE
  /\ vpResult = FALSE
  /\ argv = <<Str("node"), Str("microbi.js"), Undefined, Undefined>>
  /\ listening = NotListening

\* the listener calls onRequest for the next connection
Request(r) ==
  /\ req[r].pc = "idle"
  /\ \A q \in DOMAIN req : q < r => req[q].pc # "idle"
  /\ \E method \in Methods, url \in Urls, hsync \in BOOLEAN :
       req' = [req EXCEPT ![r] = onRequest(method, url, hsync)]
  /\ UNCHANGED <<cfgvars, headersSentThrows, vpvars, srvvars>>

\* one requestBody variable for the module, shared by all the listeners
requestBodyShared(r) == 1

\* the requestBody variable the listeners of connection r close over:
\* declared inside onRequest, so there is one per call
requestBodyOf(r) == r

RequestData(r) ==
  /\ req[r].acc = "open"
  /\ Len(req[r].received) < MaxChunks
  /\ \E data \in Chunks :
       req' = [req EXCEPT ![requestBodyOf(r)].requestBody = onData(@, data),
                          ![r].received = Append(@, data)]
  /\ UNCHANGED <<cfgvars, headersSentThrows, vpvars, srvvars>>

\* an 'end' listener that puts the default api content type back
RequestEndResetsType(r) ==
  /\ req[r].acc = "open"
  /\ req' = [req EXCEPT ![r] = onEnd(req[r])]
  /\ apiContentType' = mime(<<"t","x","t">>)
  /\ UNCHANGED <<api, staticServer, headersSentThrows, vpvars, srvvars>>

RequestEnd(r) ==
  /\ req[r].acc = "open"
  /\ req' = [req EXCEPT ![r] =
               onEnd([req[r] EXCEPT !.requestBody = req[requestBodyOf(r)].requestBody])]
  /\ UNCHANGED <<cfgvars, headersSentThrows, vpvars, srvvars>>

\* the pipe writes the next chunk of the file to the response
FileData(r) ==
  /\ req[r].fstate = "open"
  /\ req[r].piped
  /\ req[r].frest # <<>>
  /\ req' = [req EXCEPT ![r].frest = Tail(@),
                        ![r].trace = Append(@, Ev("write", 0, "", Head(req[r].frest), FALSE))]
  /\ UNCHANGED <<cfgvars, headersSentThrows, vpvars, srvvars>>

\* the read stream ends: the pipe ends the response, then the 'end' listener
FileEnd(r) ==
  /\ req[r].fstate = "open"
  /\ req[r].piped
  /\ req[r].file \in DOMAIN Files
  /\ req[r].frest = <<>>
  /\ req' = [req EXCEPT ![r].fstate = "ended",
                        ![r].trace = @ \o <<Did("pipeEnd"), Did("end")>>]
  /\ UNCHANGED <<cfgvars, headersSentThrows, vpvars, srvvars>>

\* the read stream fails, at open or later: the 'error' listener
FileError(r) ==
  /\ req[r].fstate = "open"
  /\ req' = [req EXCEPT ![r].fstate = "errored",
                        ![r].trace = respond404([trace |-> Append(@, Did("fileError")),
                                                 alive |-> TRUE]).trace]
  /\ UNCHANGED <<cfgvars, headersSentThrows, vpvars, srvvars>>

\* a stream api function that did not answer before returning answers now
HandlerResponds(r) ==
  /\ req[r].hpending
  /\ req' = [req EXCEPT ![r].hpending = FALSE,
                        ![r].trace = Append(@, Did("handlerEnd"))]
  /\ UNCHANGED <<cfgvars, headersSentThrows, vpvars, srvvars>>

setApiContentType(ext) ==
  /\ apiContentType' = mime(ext)
  /\ UNCHANGED <<api, staticServer, req, headersSentThrows, vpvars, srvvars>>

setApi(apiOb) ==
  /\ api' = apiOb
  /\ UNCHANGED <<apiContentType, staticServer, req, headersSentThrows, vpvars, srvvars>>

\* a switch that turns the static server back on when it is off
toggleStaticServer ==
  /\ staticServer' = ~staticServer
  /\ UNCHANGED <<api, apiContentType, req, headersSentThrows, vpvars, srvvars>>

disableStaticServer ==
  /\ staticServer' = FALSE
  /\ UNCHANGED <<api, apiContentType, req, headersSentThrows, vpvars, srvvars>>

Next ==
  \/ \E r \in Reqs : Request(r)
  \/ \E r \in Reqs : RequestData(r)
  \/ \E r \in Reqs : RequestEnd(r)
  \/ \E r \in Reqs : FileData(r)
  \/ \E r \in Reqs : FileEnd(r)
  \/ \E r \in Reqs : FileError(r)
  \/ \E r \in Reqs : HandlerResponds(r)
  \/ \E ext \in Exts : setApiContentType(ext)
  \/ \E apiOb \in ApiObs : setApi(apiOb)
  \/ disableStaticServer

Spec == Init /\ [][Next]_vars

(***************************************************************************)
(* validatePath applied to every path over a small alphabet                *)
(***************************************************************************)
PathAlphabet == {"a", "Z", "7", ".", "-", "_", "/", " ", "%", "<", "?"}

BoundedPaths == UNION {[1..n -> PathAlphabet] : n \in 0..MaxLen}

InitValidate ==
  /\ api = Null
  /\ apiContentType = mime(<<"t","x","t">>)
  /\ staticServer = TRUE
  /\ req = [r \in Reqs |-> InitReq]
  /\ headersSentThrows = FALSE
  /\ vpPath \in BoundedPaths
  /\ vpCalled = FALSE
  /\ vpResult = FALSE
  /\ argv = <<Str("node"), Str("microbi.js"), Undefined, Undefined>>
  /\ listening = NotListening

ValidateCall ==
  /\ ~vpCalled
  /\ vpCalled' = TRUE
  /\ vpResult' = validatePath(vpPath)
  /\ UNCHANGED <<vpPath, cfgvars, req, headersSentThrows, srvvars>>

NextValidate == ValidateCall

SpecValidate == InitValidate /\ [][NextValidate]_vars

(***************************************************************************)
(* Vocabulary of the properties                                            *)
(***************************************************************************)
\* the calls made on the response by onRequest, its listeners and its pipe
ResponseCalls(trace) ==
  SelectSeq(trace, LAMBDA e : e.ev \in {"writeHead", "write", "pipeEnd", "end"})

HasEv(trace, ev) == \E i \in 1..Len(trace) : trace[i].ev = ev

CountEv(trace, ev) == Cardinality({i \in 1..Len(trace) : trace[i].ev = ev})

NotFoundResponse == <<Ev("writeHead", 404, "", <<>>, FALSE), Ev("end", 0, "", Str404, FALSE)>>

NotAllowedResponse == <<Ev("writeHead", 405, "", <<>>, FALSE), Ev("end", 0, "", Str405, FALSE)>>

\* the step is the call of onRequest for connection r
Dispatched(r) == req[r].pc = "idle" /\ req'[r].pc # "idle"

\* no listener or stream of connection r is waiting for an event
Quiet(rq) == rq.pc # "idle" /\ rq.acc # "open" /\ rq.fstate # "open" /\ ~rq.hpending

RECURSIVE Concat(_)
Concat(chunks) ==
  IF chunks = <<>> THEN <<>> ELSE Head(chunks) \o Concat(Tail(chunks))

(***************************************************************************)
(* C1: a request that resolves to a stream api function gets that function *)
(* called exactly once and nothing else from onRequest: no call on the     *)
(* response, no static-server step, no file opened.                        *)
(***************************************************************************)
C1_StreamHandlerOwnsResponse ==
  \A r \in DOMAIN req :
     (req[r].apiFunction # Null /\ req[r].apiFunction.stream) =>
        /\ CountEv(req[r].trace, "invoke") = 1
        /\ ResponseCalls(req[r].trace) = <<>>
        /\ ~HasEv(req[r].trace, "createReadStream")
        /\ req[r].fstate = "none"

(***************************************************************************)
(* C2: with the static server disabled, a request with a valid path and no *)
(* api function is answered 404 '404 Not found.' and nothing else is       *)
(* written to its response, whatever the method.                           *)
(***************************************************************************)
C2_DisabledStaticIs404 ==
  [][\A r \in DOMAIN req :
       (/\ Dispatched(r)
        /\ ~staticServer
        /\ validatePath(urlParse(req'[r].url).pathname)
        /\ resolve(urlParse(req'[r].url).pathname, req'[r].method) = Null)
       => ResponseCalls(req'[r].trace) = NotFoundResponse]_vars

(***************************************************************************)
(* C3: single response per request: nothing is executed on a request after *)
(* its error response was ended, and writeHead is called at most once.     *)
(***************************************************************************)
C3_SingleResponse ==
  \A r \in DOMAIN req :
     LET t == req[r].trace IN
     /\ \A i \in 1..Len(t) :
          (t[i].ev = "end" /\ t[i].data \in {Str404, Str405}) => i = Len(t)
     /\ CountEv(t, "writeHead") <= 1

(***************************************************************************)
(* C4: a GET for a file whose read stream fails, static server enabled and *)
(* no api function: the response is 404 '404 Not found.' and no 200 header *)
(* is written to it.                                                       *)
(***************************************************************************)
C4_FileErrorIs404 ==
  \A r \in DOMAIN req :
     (/\ staticServer
      /\ req[r].apiFunction = Null
      /\ req[r].fstate = "errored")
     => /\ ResponseCalls(req[r].trace) = NotFoundResponse
        /\ \A i \in 1..Len(req[r].trace) : req[r].trace[i].status # 200

(***************************************************************************)
(* C5: api handling and static fallback exclude each other on a request:   *)
(* a request with an api function runs no static-server step.              *)
(***************************************************************************)
C5_ApiExcludesStatic ==
  \A r \in DOMAIN req :
     (req[r].apiFunction # Null \/ HasEv(req[r].trace, "invoke")) =>
        /\ ~HasEv(req[r].trace, "staticCheck")
        /\ ~HasEv(req[r].trace, "methodCheck")
        /\ ~HasEv(req[r].trace, "createReadStream")
        /\ ~HasEv(req[r].trace, "pipe")

(***************************************************************************)
(* C6: a request with a valid path that resolves to a buffered api         *)
(* function h writes nothing before the end of its body, and at the end    *)
(* exactly: writeHead 200 with the api content type, then end with         *)
(* h( reqUrl, B ), B the concatenation of the chunks received.             *)
(***************************************************************************)
C6_BufferedResponse ==
  [][\A r \in DOMAIN req :
       LET h == resolve(urlParse(req'[r].url).pathname, req'[r].method) IN
       /\ (/\ Dispatched(r)
           /\ validatePath(urlParse(req'[r].url).pathname)
           /\ h # Null /\ ~h.stream)
          => /\ req'[r].acc = "open"
             /\ req'[r].apiFunction = h
             /\ ResponseCalls(req'[r].trace) = <<>>
       /\ (req[r].acc = "open" /\ req'[r].acc = "open")
          => ResponseCalls(req'[r].trace) = <<>>
       /\ (req[r].acc = "open" /\ req'[r].acc = "ended")
          => ResponseCalls(req'[r].trace) =
               << Ev("writeHead", 200, apiContentType, <<>>, FALSE),
                  Ev("end", 0, "",
                     apiFunctionCall(req[r].apiFunction, urlParse(req[r].url),
                                     Concat(req[r].received)),
                     FALSE) >>
       /\ req[r].acc = "ended" => req'[r] = req[r]]_vars

\* an echo request received in two chunks was answered with both, in order
C6_Witness ==
  \E r \in DOMAIN req :
     /\ req[r].acc = "ended"
     /\ req[r].apiFunction.name = "echo"
     /\ req[r].received = << <<"h","e">>, <<"y">> >>
     /\ ResponseCalls(req[r].trace)[2].data = <<"h","e","y">>

(***************************************************************************)
(* C7: validation gates the pipeline: validatePath is the first step of    *)
(* every request, and a request whose pathname fails it gets 404 and       *)
(* nothing else: no route lookup, no api function, no listener, no file.   *)
(***************************************************************************)
C7_ValidationGates ==
  \A r \in DOMAIN req :
     req[r].pc # "idle" =>
        /\ req[r].trace[1].ev = "validatePath"
        /\ ~validatePath(urlParse(req[r].url).pathname) =>
             /\ req[r].trace = <<Did("validatePath")>> \o NotFoundResponse
             /\ req[r].apiFunction = Null
             /\ req[r].acc = "none"
             /\ req[r].fstate = "none"
             /\ ~req[r].hpending

\* a request for a hidden path that an installed api could have routed
C7_Witness ==
  \E r \in DOMAIN req :
     /\ req[r].pc # "idle"
     /\ api # Null
     /\ ~validatePath(urlParse(req[r].url).pathname)
     /\ ResponseCalls(req[r].trace) = NotFoundResponse

(***************************************************************************)
(* C8: validatePath accepts a path exactly when it has no "..", no "/."    *)
(* and only letters, digits, ".", "-", "_" and "/".                        *)
(***************************************************************************)
HasSubstring(p, a, b) == \E i \in 1..(Len(p) - 1) : p[i] = a /\ p[i+1] = b

AllowedChar(c) == c \in Letters \/ c \in Digits \/ c \in {".", "-", "_", "/"}

C8_ValidatePath ==
  vpCalled =>
     (vpResult <=> (/\ ~HasSubstring(vpPath, ".", ".")
                    /\ ~HasSubstring(vpPath, "/", ".")
                    /\ \A i \in 1..Len(vpPath) : AllowedChar(vpPath[i])))

\* a path of allowed characters only, rejected for its "/."
C8_Witness ==
  /\ vpCalled
  /\ ~vpResult
  /\ vpPath = <<"/", ".", "a">>

(***************************************************************************)
(* C9: a request dispatched while api is null has no route lookup and no   *)
(* api function called, and with a valid path it enters the static server. *)
(***************************************************************************)
C9_NullApiIsStaticOnly ==
  [][\A r \in DOMAIN req :
       /\ (Dispatched(r) /\ api = Null)
          => /\ ~HasEv(req'[r].trace, "route")
             /\ ~HasEv(req'[r].trace, "invoke")
             /\ req'[r].apiFunction = Null
             /\ req'[r].acc = "none"
             /\ ~req'[r].hpending
             /\ validatePath(urlParse(req'[r].url).pathname)
                  => HasEv(req'[r].trace, "staticCheck")
       /\ (req[r].pc # "idle" /\ req[r].apiFunction = Null)
          => /\ req'[r].apiFunction = Null
             /\ ~HasEv(req'[r].trace, "invoke")]_vars

\* a request for a path the api object routes, served statically
C9_Witness ==
  \E r \in DOMAIN req :
     /\ api = Null
     /\ req[r].url = <<"/","s">>
     /\ req[r].apiFunction = Null
     /\ HasEv(req[r].trace, "staticCheck")
     /\ ~HasEv(req[r].trace, "route")

(***************************************************************************)
(* C10: valid path, method other than GET, no api function, static server  *)
(* enabled: the response is 405 '405 Method not allowed.', no file is      *)
(* opened and nothing more happens on the request.                         *)
(***************************************************************************)
C10_NonGetIs405 ==
  [][\A r \in DOMAIN req :
       /\ (/\ Dispatched(r)
           /\ staticServer
           /\ req'[r].method # GET
           /\ validatePath(urlParse(req'[r].url).pathname)
           /\ resolve(urlParse(req'[r].url).pathname, req'[r].method) = Null)
          => /\ ResponseCalls(req'[r].trace) = NotAllowedResponse
             /\ ~HasEv(req'[r].trace, "createReadStream")
             /\ Quiet(req'[r])
       /\ Quiet(req[r]) => req'[r] = req[r]]_vars

\* a POST for an existing file, answered 405
C10_Witness ==
  \E r \in DOMAIN req :
     /\ staticServer
     /\ req[r].method = POST
     /\ req[r].url = <<"/","x",".","t","x","t">>
     /\ ResponseCalls(req[r].trace) = NotAllowedResponse
     /\ Quiet(req[r])

(***************************************************************************)
(* C11: a GET with the static server enabled and no api function opens     *)
(* 'index.html' for "/" and '.' + pathname otherwise, writes a 200 header  *)
(* with the content type of the file extension, and while the read stream  *)
(* does not fail the response receives the chunks of the file in order and *)
(* is ended only after the last one.                                       *)
(***************************************************************************)
Writes(chunks) ==
  [i \in 1..Len(chunks) |-> Ev("write", 0, "", chunks[i], FALSE)]

\* the chunks of its file a request has piped so far
Delivered(rq) ==
  SubSeq(Files[rq.file], 1, Len(Files[rq.file]) - Len(rq.frest))

FileHead(f) == Ev("writeHead", 200, mime(replaceDot(extname(f))), <<>>, FALSE)

C11_StaticFile ==
  [][\A r \in DOMAIN req :
       LET p == urlParse(req'[r].url).pathname
           f == IF p = <<"/">> THEN IndexHtml ELSE <<".">> \o p
       IN
       /\ (/\ Dispatched(r)
           /\ staticServer
           /\ req'[r].method = GET
           /\ validatePath(p)
           /\ resolve(p, GET) = Null)
          => /\ req'[r].file = f
             /\ req'[r].fstate = "open"
             /\ \E i \in 1..Len(req'[r].trace) :
                  req'[r].trace[i] = Ev("createReadStream", 0, "", f, FALSE)
             /\ ResponseCalls(req'[r].trace) = <<FileHead(f)>>
             /\ f = IndexHtml => FileHead(f).ctype = "text/html"
             /\ f \in DOMAIN Files => req'[r].frest = Files[f]
       /\ (/\ req[r].apiFunction = Null
           /\ req[r].fstate = "open"
           /\ req[r].file \in DOMAIN Files
           /\ ResponseCalls(req[r].trace)
                = <<FileHead(req[r].file)>> \o Writes(Delivered(req[r]))
           /\ req'[r] # req[r]
           /\ req'[r].fstate # "errored")
          => /\ ResponseCalls(req'[r].trace)
                  = <<FileHead(req[r].file)>> \o Writes(Delivered(req'[r]))
                    \o (IF req'[r].fstate = "ended"
                        THEN <<Did("pipeEnd"), Did("end")>> ELSE <<>>)
             /\ req'[r].fstate = "ended" => Delivered(req'[r]) = Files[req[r].file]
             /\ Len(Delivered(req'[r])) >= Len(Delivered(req[r]))]_vars

\* "/" served from index.html: header, both chunks in order, then the end
C11_Witness ==
  \E r \in DOMAIN req :
     /\ req[r].url = <<"/">>
     /\ req[r].fstate = "ended"
     /\ ResponseCalls(req[r].trace)
          = << Ev("writeHead", 200, "text/html", <<>>, FALSE),
               Ev("write", 0, "", <<"h">>, FALSE),
               Ev("write", 0, "", <<"i">>, FALSE),
               Did("pipeEnd"), Did("end") >>

(***************************************************************************)
(* C12: route resolution is an exact match of path parts ++ [method]       *)
(* against the keys of the api object: a request gets an api function      *)
(* exactly when its parts spell a root-to-function path of the tree, and   *)
(* otherwise goes to the static server.  With api.a.b.GET registered,      *)
(* POST /a/b and GET /a find nothing and GET /a/b finds the function.      *)
(***************************************************************************)
\* the key sequences of the api object that end on a function
RECURSIVE LeafPaths(_)
LeafPaths(node) ==
  IF node.kind = "fn" THEN { <<>> }
  ELSE IF node.kind = "node"
       THEN UNION { { <<k>> \o p : p \in LeafPaths(node.kids[k]) } : k \in DOMAIN node.kids }
       ELSE {}

UrlAB == <<"/","a","/","b","?","q">>

C12_ExactMatch ==
  [][\A r \in DOMAIN req :
       (/\ Dispatched(r)
        /\ api # Null
        /\ validatePath(urlParse(req'[r].url).pathname))
       => LET parts == getRoutes(urlParse(req'[r].url).pathname, req'[r].method)
              fn == req'[r].apiFunction
          IN /\ fn # Null <=> parts \in LeafPaths(api)
             /\ fn = Null => HasEv(req'[r].trace, "staticCheck")
             /\ (api = ApiOb /\ req'[r].url = UrlAB /\ req'[r].method = POST)
                  => fn = Null
             /\ (api = ApiOb /\ req'[r].url = <<"/","a">> /\ req'[r].method = GET)
                  => fn = Null
             /\ (api = ApiOb /\ req'[r].url = UrlAB /\ req'[r].method = GET)
                  => fn = ApiFn("query", FALSE)]_vars

\* POST /a/b with api.a.b.GET registered: looked up, not found, static server
C12_Witness ==
  \E r \in DOMAIN req :
     /\ req[r].url = UrlAB
     /\ req[r].method = POST
     /\ req[r].apiFunction = Null
     /\ HasEv(req[r].trace, "route")
     /\ HasEv(req[r].trace, "staticCheck")

(***************************************************************************)
(* C13: request processing never changes the server configuration: the     *)
(* configuration starts as api = null, staticServer = true, content type   *)
(* text/plain, and every step that does anything on a request (onRequest,  *)
(* the 'data' and 'end' listeners, the file listeners, the responders)     *)
(* leaves api, apiContentType and staticServer as they are.                *)
(***************************************************************************)
C13_ConfigReadOnly ==
  /\ (api = Null /\ staticServer = TRUE /\ apiContentType = "text/plain")
  /\ [][req' # req =>
          /\ api' = api
          /\ apiContentType' = apiContentType
          /\ staticServer' = staticServer]_vars

\* a buffered request was answered under a configuration set by all three
\* setters
C13_Witness ==
  \E r \in DOMAIN req :
     /\ req[r].acc = "ended"
     /\ api = ApiOb
     /\ apiContentType = "application/json"
     /\ ~staticServer
     /\ ResponseCalls(req[r].trace)[1].ctype = "application/json"

(***************************************************************************)
(* Starting the listeners                                                  *)
(***************************************************************************)
InitServer ==
  /\ api = Null
  /\ apiContentType = mime(<<"t","x","t">>)
  /\ staticServer = TRUE
  /\ req = [r \in Reqs |-> InitReq]
  /\ headersSentThrows = FALSE
  /\ vpPath = <<>>
  /\ vpCalled = FALSE
  /\ vpResult = FALSE
  /\ argv \in Argvs
  /\ listening = NotListening

server(port, ip) ==
  /\ listening' = [fn |-> "http", port |-> listenArgs(port, ip).port,
                   ip |-> listenArgs(port, ip).ip,
                   argPort |-> port, argIp |-> ip]
  /\ UNCHANGED <<cfgvars, req, headersSentThrows, vpvars, argv>>

httpsServer(options, port, ip) ==
  /\ listening' = [fn |-> "https", port |-> listenArgs(port, ip).port,
                   ip |-> listenArgs(port, ip).ip,
                   argPort |-> port, argIp |-> ip]
  /\ UNCHANGED <<cfgvars, req, headersSentThrows, vpvars, argv>>

NextServer ==
  \/ \E port \in PortArgs, ip \in IpArgs : server(port, ip)
  \/ \E port \in PortArgs, ip \in IpArgs : httpsServer("options", port, ip)

SpecServer == InitServer /\ [][NextServer]_vars

(***************************************************************************)
(* C14: server and httpsServer listen on the explicit argument if one was  *)
(* passed, else on the startup argument, else on 8080 / 127.0.0.1, for     *)
(* every combination, an explicit port of 0 included.                      *)
(***************************************************************************)
Priority(explicit, startup, default) ==
  IF explicit # Undefined THEN explicit
  ELSE IF startup # Undefined THEN startup
  ELSE default

C14_ListenPriority ==
  listening.fn # "none" =>
     /\ listening.port = Priority(listening.argPort, argv[3], Num(8080))
     /\ listening.ip = Priority(listening.argIp, argv[4], Str("127.0.0.1"))

(***************************************************************************)
(* C15: a buffered api function is called exactly once, by the 'end'       *)
(* listener: while the body is arriving the function has not been called,  *)
(* nothing was written to the response and the buffer holds the chunks     *)
(* received so far in arrival order; once the body has ended the function  *)
(* has been called once, with all the chunks in arrival order.             *)
(***************************************************************************)
InvokeData(trace) ==
  SelectSeq(trace, LAMBDA e : e.ev = "invoke")

C15_InvokedOnceAfterEnd ==
  \A r \in DOMAIN req :
     /\ req[r].acc = "open" =>
          /\ ~HasEv(req[r].trace, "invoke")
          /\ ResponseCalls(req[r].trace) = <<>>
          /\ req[r].requestBody = Concat(req[r].received)
     /\ req[r].acc = "ended" =>
          /\ Len(InvokeData(req[r].trace)) = 1
          /\ InvokeData(req[r].trace)[1].fn = req[r].apiFunction.name
          /\ InvokeData(req[r].trace)[1].data = Concat(req[r].received)
          /\ req[r].trace[Len(req[r].trace)].ev = "end"

\* the function was called once with "hey", received as "he" then "y"
C15_Witness ==
  \E r \in DOMAIN req :
     /\ req[r].acc = "ended"
     /\ req[r].received = << <<"h","e">>, <<"y">> >>
     /\ Len(InvokeData(req[r].trace)) = 1
     /\ InvokeData(req[r].trace)[1].data = <<"h","e","y">>

(***************************************************************************)
(* Several requests with a body in flight at the same time                 *)
(***************************************************************************)
Conns == 1..MaxConns

\* the requests of this scenario: bodies for the echo function, and a
\* request that is refused
ConcurrentRequests == { <<POST, <<"/","e">> >>, <<GET, <<"/",".",".">> >> }

InitConcurrent ==
  /\ api = ApiOb
  /\ apiContentType = mime(<<"t","x","t">>)
  /\ staticServer = TRUE
  /\ req = [r \in Conns |-> InitReq]
  /\ headersSentThrows \in BOOLEAN
  /\ vpPath = <<>>
  /\ vpCalled = FALSE
  /\ vpResult = FALSE
  /\ argv = <<Str("node"), Str("microbi.js"), Undefined, Undefined>>
  /\ listening = NotListening

\* onRequest for the next connection
Accept(r) ==
  /\ req[r].pc = "idle"
  /\ \A q \in DOMAIN req : q < r => req[q].pc # "idle"
  /\ \E mu \in ConcurrentRequests :
       req' = [req EXCEPT ![r] = onRequest(mu[1], mu[2], FALSE)]
  /\ UNCHANGED <<cfgvars, headersSentThrows, vpvars, srvvars>>

NextConcurrent ==
  \/ \E r \in Conns : Accept(r)
  \/ \E r \in Conns : RequestData(r)
  \/ \E r \in Conns : RequestEnd(r)

SpecConcurrent == InitConcurrent /\ [][NextConcurrent]_vars

(***************************************************************************)
(* C16: under any interleaving of the 'data' and 'end' events of several   *)
(* buffered requests, a step on one request leaves the others as they are, *)
(* each buffer holds that request's own chunks in order, and each function *)
(* is given, and each response ends with, that request's own body.         *)
(***************************************************************************)
C16_OwnChunksOnly ==
  [][\A r \in DOMAIN req :
       /\ req'[r] # req[r] => \A q \in DOMAIN req : q # r => req'[q] = req[q]
       /\ req'[r].acc \in {"open", "ended"} =>
            req'[r].requestBody = Concat(req'[r].received)
       /\ req'[r].acc = "ended" =>
            /\ InvokeData(req'[r].trace)[1].data = Concat(req'[r].received)
            /\ ResponseCalls(req'[r].trace)[2].data
                 = apiFunctionCall(req'[r].apiFunction, urlParse(req'[r].url),
                                   Concat(req'[r].received))]_vars

\* two echo requests answered with different bodies, a third one in between
\* or not
C16_Witness ==
  /\ req[1].acc = "ended"
  /\ req[2].acc = "ended"
  /\ ResponseCalls(req[1].trace)[2].data = <<"h","e","y">>
  /\ ResponseCalls(req[2].trace)[2].data = <<"y","h","e">>

(***************************************************************************)
(* C17: every request that is not handed to a stream api function gets its *)
(* response ended once its pending events have been delivered: a request   *)
(* with no body listener and no read stream left waiting has had           *)
(* response.end called.                                                    *)
(***************************************************************************)
C17_EveryRequestEnds ==
  \A r \in DOMAIN req :
     (/\ req[r].pc # "idle"
      /\ ~(req[r].apiFunction # Null /\ req[r].apiFunction.stream)
      /\ req[r].acc # "open"
      /\ req[r].fstate # "open")
     => HasEv(req[r].trace, "end")

(***************************************************************************)
(* C18: a buffered request keeps the api function found when onRequest ran *)
(* whatever setter is called while its body arrives, and is answered 200   *)
(* by that function; the Content-Type of the answer is the one configured  *)
(* when the body ends.                                                     *)
(***************************************************************************)
C18_DispatchTimeHandler ==
  [][\A r \in DOMAIN req :
       /\ (Dispatched(r) /\ req'[r].acc = "open")
          => req'[r].apiFunction
               = resolve(urlParse(req'[r].url).pathname, req'[r].method)
       /\ req[r].acc = "open"
          => /\ req'[r].apiFunction = req[r].apiFunction
             /\ req'[r].acc \in {"open", "ended"}
       /\ (req[r].acc = "open" /\ req'[r].acc = "ended")
          => /\ InvokeData(req'[r].trace)[1].fn = req[r].apiFunction.name
             /\ ResponseCalls(req'[r].trace)[1].status = 200
             /\ ResponseCalls(req'[r].trace)[1].ctype = apiContentType]_vars

\* answered by the echo function as json although the api object is gone,
\* the static server is off and the content type at module load was text
C18_Witness ==
  \E r \in DOMAIN req :
     /\ req[r].acc = "ended"
     /\ api = Null
     /\ ~staticServer
     /\ InvokeData(req[r].trace)[1].fn = "echo"
     /\ ResponseCalls(req[r].trace)[1] = Ev("writeHead", 200, "application/json", <<>>, FALSE)

(***************************************************************************)
(* C19: each setter changes its own field only, and the static server,     *)
(* once disabled, stays disabled: a step that changes api leaves           *)
(* apiContentType and staticServer alone, and so on for the other two; a   *)
(* change of staticServer is a change to false; false stays false.         *)
(***************************************************************************)
C19_SettersFrame ==
  [][/\ api' # api =>
          apiContentType' = apiContentType /\ staticServer' = staticServer
     /\ apiContentType' # apiContentType =>
          api' = api /\ staticServer' = staticServer
     /\ staticServer' # staticServer =>
          api' = api /\ apiContentType' = apiContentType /\ staticServer' = FALSE
     /\ staticServer = FALSE => staticServer' = FALSE]_vars

\* all three setters were called, and a request has since found the static
\* server off
C19_Witness ==
  /\ staticServer = FALSE
  /\ api = ApiOb
  /\ apiContentType = "application/json"
  /\ \E r \in DOMAIN req :
       /\ HasEv(req[r].trace, "staticCheck")
       /\ ResponseCalls(req[r].trace)[1].status = 404

====
